---- MODULE Spec2Model ----
(***************************************************************************)
(* StatCoach Volleyball: the research-based analysis module                *)
(* (src/analysis.js).  analyzeGame normalizes a team's raw box score,      *)
(* turns it into per-metric win-probability impacts, ranks weaknesses and  *)
(* strengths, renders a narrative and computes a few display metrics.      *)
(*                                                                         *)
(* Numbers.  A JavaScript number is modelled as an exact rational          *)
(* [k |-> "num", n, d] in lowest terms with d > 0, or NaN, or +/-Infinity; *)
(* a property that is absent from an object reads as Undefined.  The       *)
(* arithmetic below follows IEEE-754 on those values (NaN is contagious,   *)
(* every comparison with NaN is false, x/0 is an infinity, 0/0 is NaN)     *)
(* but does not round: binary rounding error and the sign of zero are not  *)
(* modelled.  Math.log is tabulated to four decimals.                      *)
(***************************************************************************)
EXTENDS Integers, Sequences, FiniteSets

--------------------------------------------------------------------------
(* JavaScript numbers *)

NaN == [k |-> "NaN", n |-> 0, d |-> 1]

Undefined == [k |-> "undefined", n |-> 0, d |-> 1]

Infinity(s) == [k |-> "inf", n |-> s, d |-> 1]

AbsInt(i) == IF i < 0 THEN -i ELSE i

SgnInt(i) == IF i < 0 THEN -1 ELSE IF i > 0 THEN 1 ELSE 0

RECURSIVE GCD(_, _)
GCD(a, b) == IF b = 0 THEN a ELSE GCD(b, a % b)

\* The rational n/d (d # 0) in lowest terms.
Num(n, d) ==
    LET g == GCD(AbsInt(n), AbsInt(d))
        s == IF d < 0 THEN -1 ELSE 1
    IN  [k |-> "num", n |-> s * (n \div g), d |-> AbsInt(d) \div g]

\* ToNumber: what an arithmetic operator sees of its operand.
ToNumber(x) == IF x.k = "undefined" THEN NaN ELSE x

IsFinite(x) == x.k = "num"

Sign(x) == SgnInt(x.n)

Neg(x) == IF x.k = "num" \/ x.k = "inf" THEN [x EXCEPT !.n = -x.n] ELSE x

Abs(x0) ==
    LET x == ToNumber(x0)
    IN  IF x.k = "num" \/ x.k = "inf" THEN [x EXCEPT !.n = AbsInt(x.n)] ELSE x

Mul(a0, b0) ==
    LET a == ToNumber(a0)
        b == ToNumber(b0)
    IN  IF a.k = "NaN" \/ b.k = "NaN" THEN NaN
        ELSE IF a.k = "inf" \/ b.k = "inf"
             THEN IF Sign(a) = 0 \/ Sign(b) = 0 THEN NaN
                  ELSE Infinity(Sign(a) * Sign(b))
        ELSE LET g1 == GCD(AbsInt(a.n), b.d)
                 g2 == GCD(AbsInt(b.n), a.d)
             IN  [k |-> "num",
                  n |-> (a.n \div g1) * (b.n \div g2),
                  d |-> (a.d \div g2) * (b.d \div g1)]

Div(a0, b0) ==
    LET a == ToNumber(a0)
        b == ToNumber(b0)
    IN  IF a.k = "NaN" \/ b.k = "NaN" THEN NaN
        ELSE IF b.k = "inf"
             THEN IF a.k = "inf" THEN NaN ELSE Num(0, 1)
        ELSE IF b.n = 0
             THEN IF Sign(a) = 0 THEN NaN ELSE Infinity(Sign(a))
        ELSE IF a.k = "inf" THEN Infinity(Sign(a) * Sign(b))
        ELSE Mul(a, Num(b.d, b.n))

Add(a0, b0) ==
    LET a == ToNumber(a0)
        b == ToNumber(b0)
    IN  IF a.k = "NaN" \/ b.k = "NaN" THEN NaN
        ELSE IF a.k = "inf"
             THEN IF b.k = "inf" /\ b.n # a.n THEN NaN ELSE a
        ELSE IF b.k = "inf" THEN b
        ELSE LET g == GCD(a.d, b.d)
             IN  Num(a.n * (b.d \div g) + b.n * (a.d \div g), (a.d \div g) * b.d)

Sub(a, b) == Add(a, Neg(ToNumber(b)))

\* a < b; false as soon as an operand is NaN (or undefined).
Lt(a0, b0) ==
    LET a == ToNumber(a0)
        b == ToNumber(b0)
    IN  /\ a.k # "NaN"
        /\ b.k # "NaN"
        /\ IF a.k = "inf" THEN a.n < 0 /\ ~(b.k = "inf" /\ b.n < 0)
           ELSE IF b.k = "inf" THEN b.n > 0
           ELSE LET g == GCD(a.d, b.d)
                IN  a.n * (b.d \div g) < b.n * (a.d \div g)

Gt(a, b) == Lt(b, a)

\* a <= b and a >= b: a < b or a == b, both false with NaN.
Le(a, b) == Lt(a, b) \/ (ToNumber(a).k # "NaN" /\ ToNumber(a) = ToNumber(b))

Ge(a, b) == Le(b, a)

\* The truthiness the || operator tests: undefined, NaN and 0 are falsy.
Truthy(x) == x.k = "inf" \/ (x.k = "num" /\ x.n # 0)

\* Number.prototype.toFixed(1): the number of tenths nearest to x, a tie
\* going away from zero; "NaN" and the infinities print as such.
ToFixed1(x0) ==
    LET x == ToNumber(x0)
    IN  IF x.k # "num" THEN x
        ELSE LET m == AbsInt(x.n) * 10
                 q == m \div x.d
                 r == m % x.d
             IN  Num(SgnInt(x.n) * (q + (IF 2 * r >= x.d THEN 1 ELSE 0)), 10)

--------------------------------------------------------------------------
(* Research constants *)

\* The keys of ODDS_RATIOS in insertion order, which is the order a
\* for-in loop and Object.entries visit them in.
OddsRatioKeys ==
    << "kills", "errors", "attempts", "serviceAces", "serviceErrors",
       "receptionErrors", "digs", "soloBlocks", "blockAssists", "blockErrors" >>

Metrics == {OddsRatioKeys[i] : i \in 1..Len(OddsRatioKeys)}

RESEARCH_BENCHMARKS ==
    [win |->
        [kills |-> Num(469, 10), errors |-> Num(143, 10),
         attempts |-> Num(962, 10), serviceAces |-> Num(645, 100),
         serviceErrors |-> Num(160, 10), receptionErrors |-> Num(371, 100),
         digs |-> Num(311, 10), soloBlocks |-> Num(194, 100),
         blockAssists |-> Num(139, 10), blockErrors |-> Num(124, 100)],
     loss |->
        [kills |-> Num(428, 10), errors |-> Num(193, 10),
         attempts |-> Num(1030, 10), serviceAces |-> Num(393, 100),
         serviceErrors |-> Num(155, 10), receptionErrors |-> Num(617, 100),
         digs |-> Num(295, 10), soloBlocks |-> Num(158, 100),
         blockAssists |-> Num(104, 10), blockErrors |-> Num(144, 100)]]

ODDS_RATIOS ==
    [kills |-> Num(1255, 1000), errors |-> Num(921, 1000),
     attempts |-> Num(881, 1000), serviceAces |-> Num(1338, 1000),
     serviceErrors |-> Num(992, 1000), receptionErrors |-> Num(757, 1000),
     digs |-> Num(1152, 1000), soloBlocks |-> Num(1257, 1000),
     blockAssists |-> Num(1126, 1000), blockErrors |-> Num(867, 1000)]

\* Math.log of each odds ratio and of 2, to four decimals.
LogOddsRatio ==
    [kills |-> Num(2271, 10000), errors |-> Num(-823, 10000),
     attempts |-> Num(-1267, 10000), serviceAces |-> Num(2912, 10000),
     serviceErrors |-> Num(-80, 10000), receptionErrors |-> Num(-2784, 10000),
     digs |-> Num(1415, 10000), soloBlocks |-> Num(2287, 10000),
     blockAssists |-> Num(1187, 10000), blockErrors |-> Num(-1427, 10000)]

Log2 == Num(6931, 10000)

\* obj[key], Undefined when the object has no such property.
Get(obj, key) == IF key \in DOMAIN obj THEN obj[key] ELSE Undefined

--------------------------------------------------------------------------
(* normalizeStats, calculateImpacts *)

\* Mutants of normalizeStats: the default of 3 sets taken for the reference
\* match length, and the sets argument ignored.
normalizeStatsThreeSetReference(stats, sets0) ==
    LET sets == IF sets0.k = "undefined" THEN Num(3, 1) ELSE sets0
        normalizationFactor == Div(Num(3, 1), sets)
    IN  [kills |-> Mul(Get(stats, "totalKills"), normalizationFactor),
         errors |-> Mul(Get(stats, "attackErrors"), normalizationFactor),
         attempts |-> Mul(Get(stats, "killAttempts"), normalizationFactor),
         serviceAces |-> Mul(Get(stats, "serviceAces"), normalizationFactor),
         serviceErrors |-> Mul(Get(stats, "serviceErrors"), normalizationFactor),
         receptionErrors |-> Mul(Get(stats, "receptionErrors"), normalizationFactor),
         digs |-> Mul(Get(stats, "digs"), normalizationFactor),
         soloBlocks |-> Mul(Get(stats, "soloBlocks"), normalizationFactor),
         blockAssists |-> Mul(Get(stats, "blockAssists"), normalizationFactor)]

normalizeStatsIgnoringSets(stats, sets0) ==
    LET normalizationFactor == Div(Num(7, 2), Num(3, 1))
    IN  [kills |-> Mul(Get(stats, "totalKills"), normalizationFactor),
         errors |-> Mul(Get(stats, "attackErrors"), normalizationFactor),
         attempts |-> Mul(Get(stats, "killAttempts"), normalizationFactor),
         serviceAces |-> Mul(Get(stats, "serviceAces"), normalizationFactor),
         serviceErrors |-> Mul(Get(stats, "serviceErrors"), normalizationFactor),
         receptionErrors |-> Mul(Get(stats, "receptionErrors"), normalizationFactor),
         digs |-> Mul(Get(stats, "digs"), normalizationFactor),
         soloBlocks |-> Mul(Get(stats, "soloBlocks"), normalizationFactor),
         blockAssists |-> Mul(Get(stats, "blockAssists"), normalizationFactor)]

normalizeStats(stats, sets0) ==
    LET sets == IF sets0.k = "undefined" THEN Num(3, 1) ELSE sets0
        normalizationFactor == Div(Num(7, 2), sets)
    IN  [kills |-> Mul(Get(stats, "totalKills"), normalizationFactor),
         errors |-> Mul(Get(stats, "attackErrors"), normalizationFactor),
         attempts |-> Mul(Get(stats, "killAttempts"), normalizationFactor),
         serviceAces |-> Mul(Get(stats, "serviceAces"), normalizationFactor),
         serviceErrors |-> Mul(Get(stats, "serviceErrors"), normalizationFactor),
         receptionErrors |-> Mul(Get(stats, "receptionErrors"), normalizationFactor),
         digs |-> Mul(Get(stats, "digs"), normalizationFactor),
         soloBlocks |-> Mul(Get(stats, "soloBlocks"), normalizationFactor),
         blockAssists |-> Mul(Get(stats, "blockAssists"), normalizationFactor)]

\* Mutant of impactEntry: the deviation taken the other way round.
impactEntryReversed(metric, value, benchmark) ==
    LET deviation == Sub(benchmark, value)
        logOddsChange == Mul(deviation, LogOddsRatio[metric])
        percentageImpact == Div(Mul(logOddsChange, Num(100, 1)), Log2)
    IN  [metric |-> metric,
         value |-> value,
         benchmark |-> benchmark,
         deviation |-> deviation,
         impact |-> percentageImpact,
         oddsRatio |-> ODDS_RATIOS[metric]]

\* One entry of the impacts object.
impactEntry(metric, value, benchmark) ==
    LET deviation == Sub(value, benchmark)
        logOddsChange == Mul(deviation, LogOddsRatio[metric])
        percentageImpact == Div(Mul(logOddsChange, Num(100, 1)), Log2)
    IN  [metric |-> metric,
         value |-> value,
         benchmark |-> benchmark,
         deviation |-> deviation,
         impact |-> percentageImpact,
         oddsRatio |-> ODDS_RATIOS[metric]]

\* The impacts object as the sequence of its entries in insertion order.
RECURSIVE impactsFrom(_, _)
impactsFrom(normalizedStats, i) ==
    IF i > Len(OddsRatioKeys) THEN << >>
    ELSE LET metric == OddsRatioKeys[i]
             midpoint == RESEARCH_BENCHMARKS.win
             rest == impactsFrom(normalizedStats, i + 1)
         IN  IF /\ Get(normalizedStats, metric).k # "undefined"
                /\ Get(midpoint, metric).k # "undefined"
             THEN << impactEntry(metric, normalizedStats[metric], midpoint[metric]) >>
                  \o rest
             ELSE rest

calculateImpacts(normalizedStats) == impactsFrom(normalizedStats, 1)

--------------------------------------------------------------------------
(* getPerformanceLevel *)

lowerIsBetter ==
    {"errors", "attempts", "serviceErrors", "receptionErrors", "blockErrors"}

getPerformanceLevelStrict(value, metric) ==
    LET winBench == Get(RESEARCH_BENCHMARKS.win, metric)
        lossBench == Get(RESEARCH_BENCHMARKS.loss, metric)
    IN  IF metric \in lowerIsBetter
        THEN IF Lt(value, winBench) THEN "excellent"
             ELSE IF Lt(value, lossBench) THEN "good"
             ELSE "needs_improvement"
        ELSE IF Gt(value, winBench) THEN "excellent"
             ELSE IF Gt(value, lossBench) THEN "good"
             ELSE "needs_improvement"

getPerformanceLevel(value, metric) ==
    LET winBench == Get(RESEARCH_BENCHMARKS.win, metric)
        lossBench == Get(RESEARCH_BENCHMARKS.loss, metric)
    IN  IF metric \in lowerIsBetter
        THEN IF Le(value, winBench) THEN "excellent"
             ELSE IF Le(value, lossBench) THEN "good"
             ELSE "needs_improvement"
        ELSE IF Ge(value, winBench) THEN "excellent"
             ELSE IF Ge(value, lossBench) THEN "good"
             ELSE "needs_improvement"

--------------------------------------------------------------------------
(* generateRecommendations *)

\* The comparator handed to Array.prototype.sort.
compareImpacts(a, b) == Sub(Abs(b.impact), Abs(a.impact))

\* The comparator says a sorts before b.  A NaN result counts as 0.
Before(a, b) == Lt(compareImpacts(a, b), Num(0, 1))

Reverse(s) == [i \in 1..Len(s) |-> s[Len(s) + 1 - i]]

(* Array.prototype.sort as V8 runs it on a short array: the leading run   *)
(* is found (and reversed when it is strictly out of order), and the rest *)
(* is inserted by binary search.  With a consistent comparator this is a  *)
(* stable sort; with NaN impacts the comparator is not consistent, the    *)
(* order is the engine's, and this is the engine's order.                 *)
RECURSIVE runEnd(_, _, _)
runEnd(arr, idx, isDescending) ==
    IF idx > Len(arr) THEN idx
    ELSE IF Before(arr[idx], arr[idx - 1]) = isDescending
         THEN runEnd(arr, idx + 1, isDescending)
         ELSE idx

RECURSIVE insertionPoint(_, _, _, _)
insertionPoint(arr, pivot, left, right) ==
    IF left >= right THEN left
    ELSE LET mid == left + ((right - left) \div 2)
         IN  IF Before(pivot, arr[mid])
             THEN insertionPoint(arr, pivot, left, mid)
             ELSE insertionPoint(arr, pivot, mid + 1, right)

RECURSIVE binaryInsertionSort(_, _)
binaryInsertionSort(arr, start) ==
    IF start > Len(arr) THEN arr
    ELSE LET pivot == arr[start]
             left == insertionPoint(arr, pivot, 1, start)
         IN  binaryInsertionSort(
                 SubSeq(arr, 1, left - 1) \o << pivot >>
                     \o SubSeq(arr, left, start - 1)
                     \o SubSeq(arr, start + 1, Len(arr)),
                 start + 1)

sortImpacts(entries) ==
    IF Len(entries) < 2 THEN entries
    ELSE LET isDescending == Before(entries[2], entries[1])
             runLength == runEnd(entries, 3, isDescending) - 1
             made == IF isDescending
                     THEN Reverse(SubSeq(entries, 1, runLength))
                              \o SubSeq(entries, runLength + 1, Len(entries))
                     ELSE entries
         IN  binaryInsertionSort(made, runLength + 1)

isWeakness(data) == Lt(data.impact, Num(-1, 1))

isStrength(data) == Gt(data.impact, Num(1, 1))

\* Mutant of weaknessOf: the deviation carried as the value.
weaknessOfDeviation(data) ==
    [metric |-> data.metric, impact |-> data.impact, value |-> data.deviation,
     benchmark |-> data.benchmark, priority |-> Abs(data.impact)]

weaknessOf(data) ==
    [metric |-> data.metric, impact |-> data.impact, value |-> data.value,
     benchmark |-> data.benchmark, priority |-> Abs(data.impact)]

strengthOf(data) ==
    [metric |-> data.metric, impact |-> data.impact, value |-> data.value,
     benchmark |-> data.benchmark]

SliceAll(s, count) == s

Slice(s, count) == SubSeq(s, 1, IF Len(s) < count THEN Len(s) ELSE count)

generateRecommendations(impacts) ==
    LET sortedImpacts == sortImpacts(impacts)
        weaknesses == Slice(SelectSeq(sortedImpacts, isWeakness), 3)
        strengths == Slice(SelectSeq(sortedImpacts, isStrength), 2)
    IN  [weaknesses |-> [i \in 1..Len(weaknesses) |-> weaknessOf(weaknesses[i])],
         strengths |-> [i \in 1..Len(strengths) |-> strengthOf(strengths[i])],
         allImpacts |-> sortedImpacts]

--------------------------------------------------------------------------
(* generateInsightsText *)

formatMetricName(metric) ==
    LET names == [kills |-> "Kills", errors |-> "Attack Errors",
                  attempts |-> "Attack Attempts", serviceAces |-> "Service Aces",
                  serviceErrors |-> "Service Errors",
                  receptionErrors |-> "Reception Errors", digs |-> "Digs",
                  soloBlocks |-> "Solo Blocks", blockAssists |-> "Block Assists",
                  blockErrors |-> "Block Errors"]
    IN  IF metric \in DOMAIN names THEN names[metric] ELSE metric

\* String.prototype.toLowerCase on the display names.
toLowerCase(name) ==
    CASE name = "Kills" -> "kills"
      [] name = "Attack Errors" -> "attack errors"
      [] name = "Attack Attempts" -> "attack attempts"
      [] name = "Service Aces" -> "service aces"
      [] name = "Service Errors" -> "service errors"
      [] name = "Reception Errors" -> "reception errors"
      [] name = "Digs" -> "digs"
      [] name = "Solo Blocks" -> "solo blocks"
      [] name = "Block Assists" -> "block assists"
      [] name = "Block Errors" -> "block errors"
      [] OTHER -> name

\* metric.includes('Block'): a case-sensitive substring test.
includesBlock(metric) == metric \in {"soloBlocks"}

(* One element pushed on the insights array: the literal text with its    *)
(* interpolated parts, %name a string and %x, %y numbers as printed.  The  *)
(* emoji and bullet glyphs of the literals are left out.                   *)
Text(text) == [text |-> text, name |-> "", x |-> Undefined, y |-> Undefined]

Fmt(text, name, x, y) == [text |-> text, name |-> name, x |-> x, y |-> y]

HeaderLine == Text("**Performance Analysis Based on NCAA Research**\n")

priorityHeading == Text("**Top Practice Priorities**\n")

strengthHeading == Text("**Areas of Strength**\n")

practiceFocusHeading == Text("**Recommended Practice Focus**\n")

RECURSIVE sumImpacts(_, _)
sumImpacts(impacts, i) ==
    IF i = 0 THEN Num(0, 1)
    ELSE Add(sumImpacts(impacts, i - 1), impacts[i].impact)

summaryLine(impacts) ==
    LET totalImpact == sumImpacts(impacts, Len(impacts))
    IN  IF Gt(totalImpact, Num(5, 1))
        THEN Text("Your statistics profile suggests strong performance aligned with winning teams from NCAA Division I research.\n")
        ELSE IF Lt(totalImpact, Num(-5, 1))
        THEN Text("Your statistics profile shows several areas below winning benchmarks. Focus on the priorities below for maximum improvement.\n")
        ELSE Text("Your statistics show a mixed profile with both strengths and areas for improvement.\n")

weaknessLines(weakness, index) ==
    LET metricName == formatMetricName(weakness.metric)
        impactPercent == ToFixed1(Abs(weakness.impact))
        orValue == Get(ODDS_RATIOS, weakness.metric)
        orPercent == ToFixed1(Abs(Mul(Sub(Num(1, 1), orValue), Num(100, 1))))
    IN  << Fmt("**Priority %x: %name**", metricName, Num(index + 1, 1), Undefined),
           Fmt("Your %x vs winning average of %y", "",
               ToFixed1(weakness.value), ToFixed1(weakness.benchmark)),
           Fmt("Impact: %x% reduction in win probability", "", impactPercent, Undefined),
           Fmt("Research shows each %name changes win odds by %x%\n",
               toLowerCase(metricName), orPercent, Undefined) >>

strengthLines(strength) ==
    LET metricName == formatMetricName(strength.metric)
        impactPercent == ToFixed1(strength.impact)
    IN  << Fmt("**%name:** %x (winning avg: %y)", metricName,
               ToFixed1(strength.value), ToFixed1(strength.benchmark)),
           Fmt("Contributing +%x% to win probability\n", "", impactPercent, Undefined) >>

RECURSIVE prioritiesFrom(_, _)
prioritiesFrom(weaknesses, index) ==
    IF index >= Len(weaknesses) THEN << >>
    ELSE weaknessLines(weaknesses[index + 1], index)
             \o prioritiesFrom(weaknesses, index + 1)

RECURSIVE strengthsFrom(_, _)
strengthsFrom(strengths, i) ==
    IF i > Len(strengths) THEN << >>
    ELSE strengthLines(strengths[i]) \o strengthsFrom(strengths, i + 1)

researchFindings ==
    << Text("**Key Research Findings**\n"),
       Text("Service aces have the strongest positive impact (+33.8% per ace)"),
       Text("Reception errors have the strongest negative impact (-24.3% per error)"),
       Text("More attack attempts actually hurt performance - efficiency over volume"),
       Text("Both solo blocks and block assists significantly improve win probability\n") >>

receptionTemplate ==
    << Text("Serve-receive drills with pressure situations"),
       Text("Individual passing technique work"),
       Text("Communication and coverage patterns") >>

servingTemplate ==
    << Text("Aggressive serving practice with target zones"),
       Text("Risk/reward analysis for different serve types"),
       Text("Situational serving strategy") >>

attemptsTemplate ==
    << Text("Shot selection and decision-making drills"),
       Text("High-percentage attack patterns"),
       Text("Reading defense and picking spots") >>

errorsTemplate ==
    << Text("Ball control and technique refinement"),
       Text("Reduce unforced errors through focused repetition"),
       Text("Mental approach to minimize mistakes") >>

digsTemplate ==
    << Text("Defensive positioning and reading hitters"),
       Text("Platform control and emergency digs"),
       Text("Transition from defense to offense") >>

blockTemplate ==
    << Text("Blocking footwork and timing"),
       Text("Reading opponent tendencies"),
       Text("Team blocking coordination") >>

\* The bullets pushed for the top-ranked weakness.
focusBullets(topWeakness) ==
    IF topWeakness.metric = "receptionErrors" THEN receptionTemplate
    ELSE IF topWeakness.metric = "serviceAces" THEN servingTemplate
    ELSE IF topWeakness.metric = "attempts" THEN attemptsTemplate
    ELSE IF topWeakness.metric = "errors" THEN errorsTemplate
    ELSE IF topWeakness.metric = "digs" THEN digsTemplate
    ELSE IF includesBlock(topWeakness.metric) THEN blockTemplate
    ELSE << >>

\* The block that closes the narrative.
practiceFocus(recommendations) ==
    << practiceFocusHeading >>
        \o (IF Len(recommendations.weaknesses) > 0
            THEN focusBullets(recommendations.weaknesses[1])
            ELSE << >>)

\* The insights array, which the function returns joined by newlines.
generateInsightsText(stats, impacts, recommendations) ==
    << HeaderLine, summaryLine(impacts) >>
        \o (IF Len(recommendations.weaknesses) > 0
            THEN << priorityHeading >> \o prioritiesFrom(recommendations.weaknesses, 0)
            ELSE << >>)
        \o (IF Len(recommendations.strengths) > 0
            THEN << strengthHeading >> \o strengthsFrom(recommendations.strengths, 1)
            ELSE << >>)
        \o researchFindings
        \o practiceFocus(recommendations)

--------------------------------------------------------------------------
(* analyzeGame *)

\* stats.totalSets || 3
setsOrDefault(stats) ==
    IF Truthy(Get(stats, "totalSets")) THEN stats.totalSets ELSE Num(3, 1)

\* Mutant of perSet: the division left unguarded.
perSetUnguarded(count, totalSets) == Div(count, totalSets)

\* stats.totalSets > 0 ? (count / stats.totalSets) : 0
perSet(count, totalSets) ==
    IF Gt(totalSets, Num(0, 1)) THEN Div(count, totalSets) ELSE Num(0, 1)

killEfficiency(stats) ==
    IF Gt(Get(stats, "killAttempts"), Num(0, 1))
    THEN Mul(Div(Get(stats, "totalKills"), Get(stats, "killAttempts")), Num(100, 1))
    ELSE Num(0, 1)

displayMetrics(stats) ==
    LET totalSets == Get(stats, "totalSets")
    IN  [killEfficiency |-> killEfficiency(stats),
         acesPerSet |-> perSet(Get(stats, "serviceAces"), totalSets),
         blocksPerSet |->
             perSet(Add(Get(stats, "soloBlocks"), Get(stats, "blockAssists")), totalSets),
         digsPerSet |-> perSet(Get(stats, "digs"), totalSets),
         receptionErrorRate |-> perSet(Get(stats, "receptionErrors"), totalSets),
         attackErrorRate |-> perSet(Get(stats, "attackErrors"), totalSets)]

analyzeGame(stats) ==
    LET normalized == normalizeStats(stats, setsOrDefault(stats))
        impacts == calculateImpacts(normalized)
        recommendations == generateRecommendations(impacts)
        insightsText == generateInsightsText(stats, impacts, recommendations)
    IN  [normalized |-> normalized,
         impacts |-> impacts,
         recommendations |-> recommendations,
         insightsText |-> insightsText,
         metrics |-> displayMetrics(stats)]

--------------------------------------------------------------------------
(* The inputs *)

MaxEdits == 2

LevelSpread == 1

MaxImpact == 2

CountFields ==
    {"totalKills", "killAttempts", "attackErrors", "serviceAces", "serviceErrors",
     "receptionErrors", "digs", "soloBlocks", "blockAssists"}

Fields == CountFields \cup {"totalSets"}

\* The end-to-end example of the specification, and a losing effort.
ExampleGame ==
    [totalKills |-> Num(50, 1), killAttempts |-> Num(100, 1),
     attackErrors |-> Num(10, 1), serviceAces |-> Num(8, 1),
     serviceErrors |-> Num(12, 1), receptionErrors |-> Num(2, 1),
     digs |-> Num(35, 1), soloBlocks |-> Num(3, 1),
     blockAssists |-> Num(15, 1), totalSets |-> Num(3, 1)]

LosingGame ==
    [totalKills |-> Num(30, 1), killAttempts |-> Num(110, 1),
     attackErrors |-> Num(20, 1), serviceAces |-> Num(3, 1),
     serviceErrors |-> Num(20, 1), receptionErrors |-> Num(7, 1),
     digs |-> Num(20, 1), soloBlocks |-> Num(1, 1),
     blockAssists |-> Num(8, 1), totalSets |-> Num(4, 1)]

Counts(S) == {Num(i, 1) : i \in S}

\* What a field of the submitted box score may be changed to.
FieldValues(f) ==
    CASE f = "totalKills" -> {Undefined} \cup Counts({0, 30, 50, 60})
      [] f = "killAttempts" -> {Undefined} \cup Counts({0, 80, 100, 110})
      [] f = "attackErrors" -> {Undefined} \cup Counts({0, 10, 20})
      [] f = "serviceAces" -> {Undefined} \cup Counts({0, 3, 8})
      [] f = "serviceErrors" -> {Undefined} \cup Counts({0, 12, 14, 20})
      [] f = "receptionErrors" -> {Undefined} \cup Counts({0, 2, 7})
      [] f = "digs" -> {Undefined} \cup Counts({0, 20, 35})
      [] f = "soloBlocks" -> {Undefined} \cup Counts({0, 1, 3})
      [] f = "blockAssists" -> {Undefined} \cup Counts({0, 8, 15})
      [] f = "totalSets" -> {Undefined, Num(7, 2)} \cup Counts({-2, 0, 3, 4, 5})

\* The values getPerformanceLevel is called with: around both benchmarks.
LevelValues(metric) ==
    {NaN} \cup
    {Add(b, Num(j, 100)) :
        j \in -LevelSpread..LevelSpread,
        b \in {RESEARCH_BENCHMARKS.win[metric], RESEARCH_BENCHMARKS.loss[metric]}}

LevelArgs == {[value |-> v, metric |-> m] : v \in UNION {LevelValues(mm) : mm \in Metrics}, m \in Metrics}

\* The impact mappings generateRecommendations is called with directly.
rankedMetrics == << "kills", "errors", "attempts", "serviceAces", "serviceErrors" >>

ImpactValues == {NaN} \cup {Num(i, 1) : i \in -MaxImpact..MaxImpact}

entryWithImpact(metric, impact) ==
    [metric |-> metric,
     value |-> RESEARCH_BENCHMARKS.win[metric],
     benchmark |-> RESEARCH_BENCHMARKS.win[metric],
     deviation |-> Num(0, 1),
     impact |-> impact,
     oddsRatio |-> ODDS_RATIOS[metric]]

RankArgs ==
    {[i \in 1..Len(rankedMetrics) |-> entryWithImpact(rankedMetrics[i], f[i])] :
        f \in [1..Len(rankedMetrics) -> ImpactValues]}

--------------------------------------------------------------------------
(* The state machine *)

VARIABLES
    stats,      \* the RawStats about to be submitted
    edits,      \* how many fields of it were changed
    pc,         \* "input" | "done" for a game; "call" | "returned" for a helper
    setsArg,    \* the set count analyzeGame handed to normalizeStats
    result,     \* what analyzeGame returned
    arg,        \* the arguments of a direct call of a helper
    ret         \* what the helper returned

vars == << stats, edits, pc, setsArg, result, arg, ret >>

Nothing == << >>

Init ==
    /\ stats \in {ExampleGame, LosingGame}
    /\ edits = 0
    /\ pc = "input"
    /\ setsArg = Nothing
    /\ result = Nothing
    /\ arg = Nothing
    /\ ret = Nothing

\* The caller fills in another field of the box score.
Edit(f, v) ==
    /\ pc = "input"
    /\ edits < MaxEdits
    /\ stats' = [stats EXCEPT ![f] = v]
    /\ edits' = edits + 1
    /\ UNCHANGED << pc, setsArg, result, arg, ret >>

AnalyzeGame ==
    /\ pc = "input"
    /\ setsArg' = setsOrDefault(stats)
    /\ result' = analyzeGame(stats)
    /\ pc' = "done"
    /\ UNCHANGED << stats, edits, arg, ret >>

Next ==
    \/ \E f \in Fields : \E v \in FieldValues(f) : Edit(f, v)
    \/ AnalyzeGame

Spec == Init /\ [][Next]_vars

\* getPerformanceLevel called on its own.
InitLevel ==
    /\ arg \in LevelArgs
    /\ pc = "call"
    /\ ret = Nothing
    /\ stats = ExampleGame
    /\ edits = 0
    /\ setsArg = Nothing
    /\ result = Nothing

GetPerformanceLevel ==
    /\ pc = "call"
    /\ ret' = getPerformanceLevel(arg.value, arg.metric)
    /\ pc' = "returned"
    /\ UNCHANGED << stats, edits, setsArg, result, arg >>

SpecLevel == InitLevel /\ [][GetPerformanceLevel]_vars

\* generateRecommendations called on its own.
InitRank ==
    /\ arg \in RankArgs
    /\ pc = "call"
    /\ ret = Nothing
    /\ stats = ExampleGame
    /\ edits = 0
    /\ setsArg = Nothing
    /\ result = Nothing

GenerateRecommendations ==
    /\ pc = "call"
    /\ ret' = generateRecommendations(arg)
    /\ pc' = "returned"
    /\ UNCHANGED << stats, edits, setsArg, result, arg >>

SpecRank == InitRank /\ [][GenerateRecommendations]_vars

--------------------------------------------------------------------------
(* Properties *)

atOrBeyond(value, bench, metric) ==
    IF metric \in {"errors", "attempts", "serviceErrors", "receptionErrors", "blockErrors"}
    THEN Le(value, bench)
    ELSE Ge(value, bench)

strictlyWorse(value, bench, metric) ==
    IF metric \in {"errors", "attempts", "serviceErrors", "receptionErrors", "blockErrors"}
    THEN Gt(value, bench)
    ELSE Lt(value, bench)

winBenchOf(metric) == RESEARCH_BENCHMARKS.win[metric]

lossBenchOf(metric) == RESEARCH_BENCHMARKS.loss[metric]

\* C1 as claimed: for every metric and every number, 'excellent' exactly when
\* the value is at or beyond the win benchmark, 'needs_improvement' exactly when
\* it is strictly worse than the loss benchmark, 'good' otherwise; a value
\* equal to the win benchmark is 'excellent' and one equal to the loss
\* benchmark is 'good', for every metric.
C1_LevelAsClaimed ==
    (pc = "returned" /\ arg.value.k # "NaN") =>
        LET v == arg.value
            m == arg.metric
        IN  /\ ret = "excellent" <=> atOrBeyond(v, winBenchOf(m), m)
            /\ ret = "needs_improvement" <=> strictlyWorse(v, lossBenchOf(m), m)
            /\ ret = "good" <=>
                   ~atOrBeyond(v, winBenchOf(m), m) /\ ~strictlyWorse(v, lossBenchOf(m), m)
            /\ v = winBenchOf(m) => ret = "excellent"
            /\ v = lossBenchOf(m) => ret = "good"

\* C1 as amended: for every metric and every value that is a number (not
\* NaN), 'excellent' exactly when the value is at or beyond the win
\* benchmark, otherwise 'good' exactly when it is at or beyond the loss
\* benchmark, otherwise 'needs_improvement'; a value equal to the win
\* benchmark is 'excellent' for every metric, and a value equal to the loss
\* benchmark is 'good' for every metric but serviceErrors, whose loss
\* benchmark (15.5) is itself beyond its win benchmark (16.0).
C1_LevelBands ==
    (pc = "returned" /\ arg.value.k # "NaN") =>
        LET v == arg.value
            m == arg.metric
            atWin == atOrBeyond(v, winBenchOf(m), m)
            atLoss == atOrBeyond(v, lossBenchOf(m), m)
        IN  /\ ret = "excellent" <=> atWin
            /\ ret = "good" <=> (~atWin /\ atLoss)
            /\ ret = "needs_improvement" <=> (~atWin /\ ~atLoss)
            /\ v = winBenchOf(m) => ret = "excellent"
            /\ (v = lossBenchOf(m) /\ m # "serviceErrors") => ret = "good"

C1_Witness ==
    /\ pc = "returned"
    /\ arg.metric = "receptionErrors"
    /\ arg.value = lossBenchOf("receptionErrors")
    /\ ret = "good"

textHas(text, line) == \E i \in 1..Len(text) : text[i] = line

linesOf(seq) == {seq[i] : i \in 1..Len(seq)}

focusTemplates ==
    {receptionTemplate, servingTemplate, attemptsTemplate, errorsTemplate,
     digsTemplate, blockTemplate}

\* C2: when the recommendation set has no weakness, the narrative holds no
\* part of the 'Recommended Practice Focus' block, neither its heading nor
\* any of its bullets.
C2_NoFocusBlockWithoutWeakness ==
    (pc = "done" /\ Len(result.recommendations.weaknesses) = 0) =>
        /\ ~textHas(result.insightsText, practiceFocusHeading)
        /\ \A t \in focusTemplates : \A b \in linesOf(t) : ~textHas(result.insightsText, b)

metricsIn(list) == {list[i].metric : i \in 1..Len(list)}

impactOf(impacts, metric) ==
    (CHOOSE i \in 1..Len(impacts) : impacts[i].metric = metric)

exampleChecks ==
    /\ result.metrics.killEfficiency = Num(50, 1)
    /\ result.normalized.serviceAces = Num(8 * 7, 2 * 3)
    /\ Gt(result.impacts[impactOf(result.impacts, "serviceAces")].impact, Num(0, 1))

\* C3 as claimed: for the end-to-end example, killEfficiency is 50,
\* normalized.serviceAces is 8 * 3.5/3, the impact of serviceAces is
\* positive, and serviceAces is one of the strengths.
C3_ExampleAsClaimed ==
    (pc = "done" /\ stats = ExampleGame) =>
        /\ exampleChecks
        /\ "serviceAces" \in metricsIn(result.recommendations.strengths)

\* C3 as amended: for the end-to-end example, killEfficiency is 50,
\* normalized.serviceAces is 8 * 3.5/3 and the impact of serviceAces is
\* positive and above the +1 threshold, but serviceAces is not one of the
\* strengths: the two strengths are kills and digs, whose impacts are larger.
C3_Example ==
    (pc = "done" /\ stats = ExampleGame) =>
        /\ exampleChecks
        /\ Gt(result.impacts[impactOf(result.impacts, "serviceAces")].impact, Num(1, 1))
        /\ "serviceAces" \notin metricsIn(result.recommendations.strengths)
        /\ [i \in 1..Len(result.recommendations.strengths) |->
               result.recommendations.strengths[i].metric] = << "kills", "digs" >>

C3_Witness ==
    /\ pc = "done"
    /\ stats = ExampleGame
    /\ Len(result.recommendations.strengths) = 2

\* C4: normalization uses 3 sets when totalSets is absent, zero or negative
\* and totalSets itself otherwise, so the set count handed to normalizeStats
\* is at least 1 and the factor 3.5/sets is positive and finite.
C4_SetsDefaulted ==
    pc = "done" =>
        /\ setsArg = (IF Gt(stats.totalSets, Num(0, 1)) THEN stats.totalSets ELSE Num(3, 1))
        /\ Ge(setsArg, Num(1, 1))
        /\ IsFinite(Div(Num(7, 2), setsArg))
        /\ Gt(Div(Num(7, 2), setsArg), Num(0, 1))

metricOfField(f) ==
    CASE f = "totalKills" -> "kills"
      [] f = "attackErrors" -> "errors"
      [] f = "killAttempts" -> "attempts"
      [] OTHER -> f

\* C5: a count field absent from the input is handled as a count of 0: its
\* normalized value is 0, and impacts, weaknesses and strengths are those of
\* the same input with the field set to 0.
C5_AbsentFieldIsZero ==
    pc = "done" =>
        \A f \in CountFields :
            stats[f] = Undefined =>
                LET zeroed == analyzeGame([stats EXCEPT ![f] = Num(0, 1)])
                IN  /\ result.normalized[metricOfField(f)] = Num(0, 1)
                    /\ result.impacts = zeroed.impacts
                    /\ result.recommendations.weaknesses = zeroed.recommendations.weaknesses
                    /\ result.recommendations.strengths = zeroed.recommendations.strengths

\* C6: generateRecommendations returns at most 3 weaknesses and at most 2
\* strengths, and no metric is in both lists.
C6_ListBounds ==
    pc = "returned" =>
        /\ Len(ret.weaknesses) <= 3
        /\ Len(ret.strengths) <= 2
        /\ metricsIn(ret.weaknesses) \cap metricsIn(ret.strengths) = {}

C6_Witness ==
    /\ pc = "returned"
    /\ Cardinality({i \in 1..Len(arg) : isWeakness(arg[i])}) = 4
    /\ Len(ret.weaknesses) = 3
    /\ Len(ret.strengths) = 1

present(x) == x.k = "num"

higherIsBetterFields ==
    {"totalKills", "serviceAces", "digs", "soloBlocks", "blockAssists"}

lowerIsBetterFields ==
    {"attackErrors", "killAttempts", "serviceErrors", "receptionErrors"}

impactAfter(game, metric) ==
    LET impacts == calculateImpacts(normalizeStats(game, setsOrDefault(game)))
    IN  impacts[impactOf(impacts, metric)].impact

\* C7: with totalSets > 0 and the other fields fixed, a larger raw count of
\* kills, serviceAces, digs, soloBlocks or blockAssists gives a strictly
\* larger impact of that metric, and a larger raw count of errors, attempts,
\* serviceErrors or receptionErrors (odds ratio below 1) a strictly smaller
\* one.
C7_Monotone ==
    (pc = "done" /\ Gt(stats.totalSets, Num(0, 1))) =>
        \A f \in CountFields :
            \A v \in FieldValues(f) :
                (present(stats[f]) /\ present(v) /\ Gt(v, stats[f])) =>
                    LET m == metricOfField(f)
                        before == result.impacts[impactOf(result.impacts, m)].impact
                        after == impactAfter([stats EXCEPT ![f] = v], m)
                    IN  /\ f \in higherIsBetterFields => Gt(after, before)
                        /\ f \in lowerIsBetterFields =>
                               (Lt(ODDS_RATIOS[m], Num(1, 1)) /\ Lt(after, before))

C7_Witness ==
    /\ pc = "done"
    /\ stats.totalSets = Num(5, 1)
    /\ stats.serviceErrors = Num(12, 1)
    /\ stats.totalKills = Num(30, 1)
    /\ Lt(impactAfter([stats EXCEPT !.serviceErrors = Num(14, 1)], "serviceErrors"),
          result.impacts[impactOf(result.impacts, "serviceErrors")].impact)
    /\ Gt(impactAfter([stats EXCEPT !.totalKills = Num(50, 1)], "kills"),
          result.impacts[impactOf(result.impacts, "kills")].impact)

numeratorsPresent ==
    \A f \in CountFields \ {"killAttempts"} : present(stats[f])

displayMetricNames ==
    {"killEfficiency", "acesPerSet", "blocksPerSet", "digsPerSet",
     "receptionErrorRate", "attackErrorRate"}

\* C8: for an input whose counts are present and non-negative, each of the
\* six display metrics is a finite number; killEfficiency is 0 when
\* killAttempts is absent or not above 0, the other five are 0 when totalSets
\* is absent or not above 0, and otherwise blocksPerSet is
\* (soloBlocks + blockAssists) / totalSets.
C8_DisplayMetrics ==
    (pc = "done" /\ numeratorsPresent) =>
        /\ \A name \in displayMetricNames : IsFinite(result.metrics[name])
        /\ ~Gt(stats.killAttempts, Num(0, 1)) => result.metrics.killEfficiency = Num(0, 1)
        /\ ~Gt(stats.totalSets, Num(0, 1)) =>
               \A name \in displayMetricNames \ {"killEfficiency"} :
                   result.metrics[name] = Num(0, 1)
        /\ Gt(stats.totalSets, Num(0, 1)) =>
               Mul(result.metrics.blocksPerSet, stats.totalSets)
                   = Add(stats.soloBlocks, stats.blockAssists)

C8_Witness ==
    /\ pc = "done"
    /\ numeratorsPresent
    /\ stats.totalSets = Num(0, 1)
    /\ stats.killAttempts = Undefined
    /\ stats.serviceAces = Num(8, 1)
    /\ result.metrics.acesPerSet = Num(0, 1)

\* C9: for a set count s > 0 every tracked field that is present is
\* normalized to exactly its raw count times 3.5/s, neither clamped nor
\* rounded, so with s = 3.5 the normalized value is the raw count.
C9_ScaleLaw ==
    (pc = "done" /\ Gt(setsArg, Num(0, 1))) =>
        \A f \in CountFields :
            present(stats[f]) =>
                LET normalizedValue == result.normalized[metricOfField(f)]
                IN  /\ Mul(normalizedValue, Mul(Num(2, 1), setsArg))
                           = Mul(Num(7, 1), stats[f])
                    /\ setsArg = Num(7, 2) => normalizedValue = stats[f]

C9_Witness ==
    /\ pc = "done"
    /\ setsArg = Num(7, 2)
    /\ stats.totalKills = Num(50, 1)
    /\ result.normalized.kills = Num(50, 1)
    /\ stats.attackErrors = Num(20, 1)
    /\ result.normalized.errors = Num(20, 1)

\* The lines that follow the 'Recommended Practice Focus' heading.
focusBlock(text) ==
    LET at == CHOOSE i \in 1..Len(text) : text[i] = practiceFocusHeading
    IN  SubSeq(text, at + 1, Len(text))

templateClaimedFor(metric) ==
    CASE metric = "receptionErrors" -> {receptionTemplate}
      [] metric = "serviceAces" -> {servingTemplate}
      [] metric = "attempts" -> {attemptsTemplate}
      [] metric = "errors" -> {errorsTemplate}
      [] metric = "digs" -> {digsTemplate}
      [] metric \in {"soloBlocks", "blockAssists", "blockErrors"} -> {blockTemplate}
      [] OTHER -> focusTemplates

\* C10: when there is a weakness, the 'Recommended Practice Focus' block
\* holds exactly one of the six three-bullet templates, the one the metric of
\* weaknesses[0] selects, whichever metric that is.
C10_FocusTemplate ==
    (pc = "done" /\ Len(result.recommendations.weaknesses) > 0) =>
        /\ textHas(result.insightsText, practiceFocusHeading)
        /\ focusBlock(result.insightsText)
               \in templateClaimedFor(result.recommendations.weaknesses[1].metric)

\* Entry i of the mapping ranks ahead of entry j: a larger absolute impact,
\* or the same absolute impact and an earlier place in the mapping.
ranksAhead(impacts, i, j) ==
    \/ Gt(Abs(impacts[i].impact), Abs(impacts[j].impact))
    \/ (Abs(impacts[i].impact) = Abs(impacts[j].impact) /\ i < j)

\* list holds, in ranking order, the first (up to) count entries of the
\* mapping among those whose index is in chosen.
topRanked(impacts, list, chosen, count) ==
    LET at(k) == impactOf(impacts, list[k].metric)
    IN  /\ Len(list) = (IF Cardinality(chosen) < count THEN Cardinality(chosen) ELSE count)
        /\ \A k \in 1..Len(list) :
               /\ list[k].metric \in {impacts[i].metric : i \in chosen}
               /\ list[k].impact = impacts[at(k)].impact
        /\ \A k \in 1..Len(list) : \A l \in 1..Len(list) :
               k < l => ranksAhead(impacts, at(k), at(l))
        /\ \A i \in chosen :
               impacts[i].metric \notin metricsIn(list) =>
                   \A k \in 1..Len(list) : ranksAhead(impacts, at(k), i)

rankedAsClaimed(impacts, recommendations) ==
    /\ topRanked(impacts, recommendations.weaknesses,
                 {i \in 1..Len(impacts) : Lt(impacts[i].impact, Num(-1, 1))}, 3)
    /\ topRanked(impacts, recommendations.strengths,
                 {i \in 1..Len(impacts) : Gt(impacts[i].impact, Num(1, 1))}, 2)
    /\ \A i \in 1..Len(impacts) :
           Abs(impacts[i].impact) = Num(1, 1) =>
               impacts[i].metric \notin
                   metricsIn(recommendations.weaknesses) \cup metricsIn(recommendations.strengths)

\* C11: the weaknesses are the (up to) three entries of largest absolute
\* impact among those with impact < -1, the strengths the (up to) two of
\* largest impact among those with impact > +1, each list in descending
\* order of absolute impact with ties in the order of the odds-ratio table;
\* an entry whose impact is exactly -1 or +1 is in neither list.
C11_Ranking ==
    pc = "done" => rankedAsClaimed(result.impacts, result.recommendations)

fieldOfMetric(metric) ==
    CASE metric = "kills" -> "totalKills"
      [] metric = "errors" -> "attackErrors"
      [] metric = "attempts" -> "killAttempts"
      [] OTHER -> metric

\* The 'Your X vs winning average of Y' line of priority paragraph k.
yourLine(text, k) ==
    LET at == CHOOSE i \in 1..Len(text) : text[i] = priorityHeading
    IN  text[at + 4 * (k - 1) + 2]

\* C12 as claimed: the value each weakness carries into the formatter, and
\* the 'Your X' line shows to one decimal, is the raw count of its metric,
\* whatever totalSets is.
C12_ShownValueIsRaw ==
    pc = "done" =>
        \A k \in 1..Len(result.recommendations.weaknesses) :
            LET weakness == result.recommendations.weaknesses[k]
                raw == stats[fieldOfMetric(weakness.metric)]
            IN  /\ weakness.value = raw
                /\ yourLine(result.insightsText, k).x = ToFixed1(raw)

\* C12 as amended: the value each weakness carries into the formatter, and
\* the 'Your X' line shows to one decimal, is the normalized count of its
\* metric, the raw count times 3.5/sets with sets = totalSets || 3; it is the
\* raw count only when sets is 3.5.
C12_ShownValueIsNormalized ==
    pc = "done" =>
        \A k \in 1..Len(result.recommendations.weaknesses) :
            LET weakness == result.recommendations.weaknesses[k]
                raw == stats[fieldOfMetric(weakness.metric)]
                line == yourLine(result.insightsText, k)
            IN  /\ weakness.value = result.normalized[weakness.metric]
                /\ Mul(weakness.value, Mul(Num(2, 1), setsArg)) = Mul(Num(7, 1), raw)
                /\ line.text = "Your %x vs winning average of %y"
                /\ line.x = ToFixed1(Div(Mul(raw, Num(7, 2)), setsArg))
                /\ weakness.value = raw <=> (setsArg = Num(7, 2) \/ raw = Num(0, 1))

C12_Witness ==
    /\ pc = "done"
    /\ stats = ExampleGame
    /\ Len(result.recommendations.weaknesses) = 1
    /\ result.recommendations.weaknesses[1].metric = "attempts"
    /\ result.recommendations.weaknesses[1].value = Num(350, 3)
    /\ yourLine(result.insightsText, 1).x = Num(1167, 10)

====
